---------------------------- MODULE Spec2Model ----------------------------
(***************************************************************************)
(* The cart / checkout / order-fulfilment core of smstore/store.           *)
(*                                                                         *)
(* The database is the state: the product rows, the cart-item rows of the  *)
(* one (session, store) cart, the order rows and the order-item rows.      *)
(* Every request handler is a little process: it reads rows into its       *)
(* in-memory instances (loc), and writes them back in later steps, so that *)
(* two requests can interleave between a read and a write, as two Django   *)
(* workers do.  Money is counted in whole currency units.                  *)
(*                                                                         *)
(* An order code is the sequence of its characters.  The admin's inline    *)
(* item forms and the owner's edits of a product's stock are left out.     *)
(*                                                                         *)
(* Spec       : the shop: cart, checkout, order update and admin requests, *)
(*              one at a time (only worker 1 runs), MaxRequests of them.   *)
(* SpecConc   : the same requests, the two workers interleaving statement  *)
(*              by statement; a transaction.atomic block buffers its       *)
(*              writes until commit (READ COMMITTED), everything else      *)
(*              autocommits.                                               *)
(* SpecOrders : the creation of orders alone (POST of an order), one at a  *)
(*              time, for two stores, on any day.                          *)
(* SpecCart   : the cart alone, one call at a time: the cart views and     *)
(*              ShoppingCart.update_quantity called directly.              *)
(* SpecShop   : the requests of Spec and ShoppingCart.update_quantity       *)
(*              called directly, one at a time, ShopRequests of them.      *)
(* SpecFulfil : two workers updating two placed orders that each hold an   *)
(*              item of the same product, statement by statement.          *)
(***************************************************************************)
EXTENDS Integers, Sequences, FiniteSets, TLC

\* ------------------------------------------------------------------ bounds
MaxQty         == 2   \* largest quantity a request asks for
MaxLineQty     == 3   \* largest quantity a cart line is let grow to
MaxCartItems   == 3   \* cart-item rows ever inserted
MaxOrders      == 3   \* order rows ever inserted (rolled back ones included)
MaxTime        == 3   \* calls of timezone.now()
MaxRequests    == 5   \* requests worker 1 takes on in Spec
ConcRequests   == 3   \* requests the two workers take on together in SpecConc
OrderRequests  == 3   \* requests worker 1 takes on in SpecOrders
CartRequests   == 4   \* calls worker 1 takes on in SpecCart
RecursionLimit == 2   \* nested calls of generate_order_code the interpreter's stack holds
ShopRequests   == 4   \* requests worker 1 takes on in SpecShop
FulfilRequests == 2   \* requests the two workers take on together in SpecFulfil

Procs    == {1, 2}
Products == {"p1", "p2"}
Prices   == {1, 2}
\* the value of a null column (final_total_amount, fulfilled_at)
None     == 0 - 1
\* a field the request data does not carry
Absent   == 0 - 2
\* the final_total_amount values an owner submits
FinalInputs == {None, 0, 5}

STATUS_CHOICES == {"placed", "confirmed", "in_delivery", "fulfilled", "cancelled"}

\* the stores and their names; the cart and the products are store s1's
Stores == {"s1", "s2"}
StoreName == [s \in Stores |-> IF s = "s1" THEN <<"A", "c", "m", "e">> ELSE <<"b", "o">>]
\* the days of the year datetime.now() falls on
Days == {7, 300}
\* the outcomes of random.choices(string.ascii_uppercase + string.digits, k=2)
\* that are followed
RandomParts == {<<"A", "7">>, <<"Z", "Z">>}

VARIABLES
    products,        \* Product rows: product -> [price, inventory, units_sold, total_revenue]
    cartItems,       \* CartItem rows of the cart: set of [id, product, quantity, price]
    nextCartItemId,  \* the CartItem id sequence
    orders,          \* committed Order rows: id -> [status, total_amount, final_total_amount, fulfilled_at]
    nextOrderId,     \* the Order id sequence (not rolled back)
    orderItems,      \* committed OrderItem rows: set of [order, item, product, quantity, price, final_price]
    sent,            \* order id -> number of order-created mails handed to send_mail
    now,             \* the clock: the value the next timezone.now() returns
    today,           \* the day of the year datetime.now() falls on
    pc,              \* worker -> where its request handler stands
    loc,             \* worker -> the handler's in-memory instances and request data
    tx,              \* worker -> the uncommitted writes of its transaction.atomic block
    left             \* requests still to be admitted

vars == <<products, cartItems, nextCartItemId, orders, nextOrderId, orderItems,
          sent, now, today, pc, loc, tx, left>>

dbvars == <<products, cartItems, nextCartItemId, orders, nextOrderId, orderItems, sent, now,
            today>>

\* ---------------------------------------------------------------- helpers
NoRow == [id |-> 0, product |-> "none", quantity |-> 0, price |-> 0]
NoProduct == [price |-> 0, inventory |-> 0, units_sold |-> 0, total_revenue |-> 0]
NoOrder ==
    [store |-> "none", order_code |-> <<>>, status |-> "none", total_amount |-> 0,
     final_total_amount |-> None, fulfilled_at |-> None]
NoTx  == [active |-> FALSE, order |-> 0, row |-> <<>>, items |-> {}, deleted |-> {}]
LocIdle ==
    [op |-> "none", resp |-> "none", cause |-> "none", product |-> "none",
     quantity |-> 0, row |-> NoRow, order |-> 0, pre |-> {}, preProducts |-> <<>>,
     todo |-> <<>>, prod |-> NoProduct, hasItems |-> FALSE, total |-> 0,
     mf |-> "none", inst |-> NoOrder, depth |-> 0, final_amount |-> None,
     preOrder |-> NoOrder, preOrders |-> {}, preSent |-> <<>>, items_data |-> <<>>]

\* CartItem.subtotal / OrderItem.subtotal
subtotal(item) == item.price * item.quantity
\* OrderItem.final_subtotal
final_subtotal(item) == item.final_price * item.quantity
\* ShoppingCart.total over the rows a query returned
RECURSIVE total(_)
total(rows) ==
    IF rows = {} THEN 0
    ELSE LET r == CHOOSE x \in rows : TRUE IN subtotal(r) + total(rows \ {r})

\* a faulty exists: a cart passes for non-empty whatever it holds
existsAlways(rows) == TRUE

\* QuerySet.exists()
exists(rows) == rows # {}

\* rows another worker's open transaction has deleted and still holds locked
LockedBy(p) == UNION {tx[q].deleted : q \in Procs \ {p}}

\* Model.save() of an in-memory row: UPDATE by primary key, INSERT when no row has it
SaveRow(rows, r) == {x \in rows : x.id # r.id} \cup {r}

\* ------------------------------------------------------- order codes
\* the checksum alphabet '0123456789ABCDEFGHIJKLMNOPQRSTUVWXYZ'
Alphabet ==
    <<"0", "1", "2", "3", "4", "5", "6", "7", "8", "9",
      "A", "B", "C", "D", "E", "F", "G", "H", "I", "J", "K", "L", "M",
      "N", "O", "P", "Q", "R", "S", "T", "U", "V", "W", "X", "Y", "Z">>
Lowercase ==
    <<"a", "b", "c", "d", "e", "f", "g", "h", "i", "j", "k", "l", "m",
      "n", "o", "p", "q", "r", "s", "t", "u", "v", "w", "x", "y", "z">>

IndexIn(seq, c) == CHOOSE i \in 1..Len(seq) : seq[i] = c

\* ord(c) of a digit or an upper-case letter
ord(c) == LET i == IndexIn(Alphabet, c) IN IF i <= 10 THEN 47 + i ELSE 54 + i

\* str.upper(), one character
upper(c) ==
    IF \E i \in 1..Len(Lowercase) : Lowercase[i] = c
    THEN Alphabet[10 + IndexIn(Lowercase, c)]
    ELSE c

\* the decimal digits of n >= 0
RECURSIVE str(_)
str(n) == IF n < 10 THEN <<Alphabet[n + 1]>> ELSE str(n \div 10) \o <<Alphabet[(n % 10) + 1]>>

\* f"{day_of_year:02d}": zero-padded to two digits at least
day_str(day_of_year) ==
    IF Len(str(day_of_year)) < 2 THEN <<"0">> \o str(day_of_year) ELSE str(day_of_year)

\* store.name[:2].upper()
store_prefix(name) ==
    [i \in 1..(IF Len(name) < 2 THEN Len(name) ELSE 2) |-> upper(name[i])]

\* sum(ord(c) for c in base_code)
RECURSIVE SumOrd(_)
SumOrd(chars) == IF chars = <<>> THEN 0 ELSE ord(Head(chars)) + SumOrd(Tail(chars))

checksum(base_code) == Alphabet[(SumOrd(base_code) % 36) + 1]

\* generate_order_code, one attempt: the code it builds from the store's name,
\* the day and the random characters drawn
full_code(name, day_of_year, random_part) ==
    LET base_code == store_prefix(name) \o day_str(day_of_year) \o random_part
    IN base_code \o <<checksum(base_code)>>

\* the order codes of the committed rows
Codes(rows) == {rows[o].order_code : o \in DOMAIN rows}

\* workers about to insert an order row
Creating == {w \in Procs : pc[w] \in {"co_enter", "co_order", "gen", "co_insert", "oc_insert"}}

InitDb ==
    /\ products = [x \in Products |->
                     [price |-> 1, inventory |-> IF x = "p1" THEN 2 ELSE 1,
                      units_sold |-> 0, total_revenue |-> 0]]
    /\ cartItems = {}
    /\ nextCartItemId = 1
    /\ orders = <<>>
    /\ nextOrderId = 1
    /\ orderItems = {}
    /\ sent = [o \in 1..MaxOrders |-> 0]
    /\ now = 1
    /\ pc = [p \in Procs |-> "idle"]
    /\ loc = [p \in Procs |-> LocIdle]
    /\ tx = [p \in Procs |-> NoTx]

Init == InitDb /\ today = 45 /\ left = MaxRequests

\* a worker takes on a request
Admit == left > 0 /\ left' = left - 1

\* the handler returns its response: the worker is free for the next request
Done(p, resp, cause) ==
    /\ pc' = [pc EXCEPT ![p] = "done"]
    /\ loc' = [loc EXCEPT ![p].resp = resp, ![p].cause = cause]

Return(p) ==
    /\ pc[p] = "done"
    /\ pc' = [pc EXCEPT ![p] = "idle"]
    /\ loc' = [loc EXCEPT ![p] = LocIdle]
    /\ UNCHANGED <<dbvars, tx>>
    /\ UNCHANGED left

\* ------------------------------------------------------- AddToCartView
\* CartItemCreateSerializer.validate_product_id, then ShoppingCart.add_item's lookup
AddBegin(p) ==
    /\ pc[p] = "idle"
    /\ Admit
    /\ \E prod \in Products, q \in 1..MaxQty :
         LET found == {r \in cartItems : r.product = prod} IN
         /\ nextCartItemId + Cardinality({w \in Procs : pc[w] = "add_create"}) <= MaxCartItems
         /\ \A r \in found : r.quantity + q <= MaxLineQty
         /\ IF products[prod].inventory < q
            THEN /\ pc' = [pc EXCEPT ![p] = "done"]
                 /\ loc' = [loc EXCEPT ![p].op = "add", ![p].product = prod,
                                       ![p].quantity = q, ![p].resp = "bad_request",
                                       ![p].cause = "inventory"]
            ELSE IF Cardinality(found) > 1
            THEN /\ pc' = [pc EXCEPT ![p] = "done"]
                 /\ loc' = [loc EXCEPT ![p].op = "add", ![p].product = prod,
                                       ![p].quantity = q, ![p].resp = "error",
                                       ![p].cause = "MultipleObjectsReturned"]
            ELSE IF found = {}
            THEN /\ pc' = [pc EXCEPT ![p] = "add_create"]
                 /\ loc' = [loc EXCEPT ![p].op = "add", ![p].product = prod,
                                       ![p].quantity = q, ![p].pre = cartItems,
                                       ![p].row = [id |-> 0, product |-> prod, quantity |-> q,
                                                   price |-> products[prod].price]]
            ELSE /\ pc' = [pc EXCEPT ![p] = "add_save"]
                 /\ loc' = [loc EXCEPT ![p].op = "add", ![p].product = prod,
                                       ![p].quantity = q, ![p].pre = cartItems,
                                       ![p].row = CHOOSE r \in found : TRUE]
    /\ UNCHANGED <<dbvars, tx>>

\* a faulty AddSave: the line is repriced at the product's price of the moment
AddSaveAtProductPrice(p) ==
    /\ pc[p] = "add_save"
    /\ loc[p].row.id \notin LockedBy(p)
    /\ cartItems' = SaveRow(cartItems,
                            [loc[p].row EXCEPT !.quantity = @ + loc[p].quantity,
                                               !.price = products[loc[p].product].price])
    /\ Done(p, "ok", "none")
    /\ UNCHANGED <<products, nextCartItemId, orders, nextOrderId, orderItems, sent, now, tx>>
    /\ UNCHANGED <<left, today>>

\* add_item: cart_item.quantity += quantity; cart_item.save()
AddSave(p) ==
    /\ pc[p] = "add_save"
    /\ loc[p].row.id \notin LockedBy(p)
    /\ cartItems' = SaveRow(cartItems,
                            [loc[p].row EXCEPT !.quantity = @ + loc[p].quantity])
    /\ Done(p, "ok", "none")
    /\ UNCHANGED <<products, nextCartItemId, orders, nextOrderId, orderItems, sent, now, tx>>
    /\ UNCHANGED left
    /\ UNCHANGED today

\* add_item: CartItem.objects.create(cart, product, quantity, price=product.price)
AddCreate(p) ==
    /\ pc[p] = "add_create"
    /\ cartItems' = cartItems \cup {[loc[p].row EXCEPT !.id = nextCartItemId]}
    /\ nextCartItemId' = nextCartItemId + 1
    /\ Done(p, "ok", "none")
    /\ UNCHANGED <<products, orders, nextOrderId, orderItems, sent, now, tx>>
    /\ UNCHANGED left
    /\ UNCHANGED today

\* ------------------------------------------------- UpdateCartItemView
\* get_object, then CartItemUpdateSerializer: quantity has min_value=0, then
\* validate_quantity
UpdBegin(p) ==
    /\ pc[p] = "idle"
    /\ Admit
    /\ \E r \in cartItems, q \in (0 - 1)..MaxQty :
         IF q < 0
         THEN /\ pc' = [pc EXCEPT ![p] = "done"]
              /\ loc' = [loc EXCEPT ![p].op = "update", ![p].row = r, ![p].quantity = q,
                                    ![p].pre = cartItems,
                                    ![p].resp = "bad_request", ![p].cause = "min_value"]
         ELSE IF q # 0 /\ products[r.product].inventory < q
         THEN /\ pc' = [pc EXCEPT ![p] = "done"]
              /\ loc' = [loc EXCEPT ![p].op = "update", ![p].row = r, ![p].quantity = q,
                                    ![p].resp = "bad_request", ![p].cause = "inventory"]
         ELSE /\ pc' = [pc EXCEPT ![p] = "upd_write"]
              /\ loc' = [loc EXCEPT ![p].op = "update", ![p].row = r, ![p].quantity = q,
                                    ![p].pre = cartItems]
    /\ UNCHANGED <<dbvars, tx>>

\* quantity == 0: cart_item.delete(); else cart_item.quantity = quantity; cart_item.save()
UpdWrite(p) ==
    /\ pc[p] = "upd_write"
    /\ loc[p].row.id \notin LockedBy(p)
    /\ cartItems' = IF loc[p].quantity = 0
                    THEN {x \in cartItems : x.id # loc[p].row.id}
                    ELSE SaveRow(cartItems, [loc[p].row EXCEPT !.quantity = loc[p].quantity])
    /\ Done(p, "ok", "none")
    /\ UNCHANGED <<products, nextCartItemId, orders, nextOrderId, orderItems, sent, now, tx>>
    /\ UNCHANGED left
    /\ UNCHANGED today

\* ------------------------------------- ShoppingCart.update_quantity
\* the method called directly (no view calls it): the lookup of the line
UqBegin(p) ==
    /\ pc[p] = "idle"
    /\ Admit
    /\ \E prod \in Products, q \in (0 - 1)..MaxQty :
         LET found == {r \in cartItems : r.product = prod} IN
         /\ nextCartItemId + Cardinality({w \in Procs : pc[w] = "add_create"}) <= MaxCartItems
         /\ IF Cardinality(found) > 1
            THEN /\ pc' = [pc EXCEPT ![p] = "done"]
                 /\ loc' = [loc EXCEPT ![p].op = "update_quantity", ![p].product = prod,
                                       ![p].quantity = q, ![p].pre = cartItems,
                                       ![p].resp = "error",
                                       ![p].cause = "MultipleObjectsReturned"]
            ELSE IF found = {} /\ q > 0
            THEN /\ pc' = [pc EXCEPT ![p] = "add_create"]
                 /\ loc' = [loc EXCEPT ![p].op = "update_quantity", ![p].product = prod,
                                       ![p].quantity = q, ![p].pre = cartItems,
                                       ![p].row = [id |-> 0, product |-> prod, quantity |-> q,
                                                   price |-> products[prod].price]]
            ELSE IF found = {}
            THEN /\ pc' = [pc EXCEPT ![p] = "done"]
                 /\ loc' = [loc EXCEPT ![p].op = "update_quantity", ![p].product = prod,
                                       ![p].quantity = q, ![p].pre = cartItems,
                                       ![p].resp = "ok"]
            ELSE /\ pc' = [pc EXCEPT ![p] = "uq_write"]
                 /\ loc' = [loc EXCEPT ![p].op = "update_quantity", ![p].product = prod,
                                       ![p].quantity = q, ![p].pre = cartItems,
                                       ![p].row = CHOOSE r \in found : TRUE]
    /\ UNCHANGED <<dbvars, tx>>

\* quantity <= 0: cart_item.delete(); else cart_item.quantity = quantity; cart_item.save()
UqWrite(p) ==
    /\ pc[p] = "uq_write"
    /\ loc[p].row.id \notin LockedBy(p)
    /\ cartItems' = IF loc[p].quantity <= 0
                    THEN {x \in cartItems : x.id # loc[p].row.id}
                    ELSE SaveRow(cartItems, [loc[p].row EXCEPT !.quantity = loc[p].quantity])
    /\ Done(p, "ok", "none")
    /\ UNCHANGED <<products, nextCartItemId, orders, nextOrderId, orderItems, sent, now, tx>>
    /\ UNCHANGED <<left, today>>

\* ------------------------------------------------- RemoveFromCartView
\* get_object, cart_item.delete()
RemoveFromCart(p) ==
    /\ pc[p] = "idle"
    /\ Admit
    /\ \E r \in cartItems :
         /\ r.id \notin LockedBy(p)
         /\ cartItems' = {x \in cartItems : x.id # r.id}
         /\ pc' = [pc EXCEPT ![p] = "done"]
         /\ loc' = [loc EXCEPT ![p].op = "remove", ![p].row = r, ![p].pre = cartItems,
                               ![p].resp = "ok"]
    /\ UNCHANGED <<products, nextCartItemId, orders, nextOrderId, orderItems, sent, now, tx>>
    /\ UNCHANGED today

\* ------------------------------------------------------------ Order
\* Order.save(): the fulfilment defaults it fills in before the row is written
Order_save(o, t) ==
    IF o.status = "fulfilled" /\ o.fulfilled_at = None
    THEN [o EXCEPT !.fulfilled_at = t,
                   !.final_total_amount = IF @ = None THEN o.total_amount ELSE @]
    ELSE o

\* whether that Order.save() called timezone.now()
SaveStamps(o) == o.status = "fulfilled" /\ o.fulfilled_at = None

\* Order(store, customer..., total_amount), not saved yet: no code, status
\* defaults to placed
NewOrder(store, amount) ==
    [store |-> store, order_code |-> <<>>, status |-> "placed", total_amount |-> amount,
     final_total_amount |-> None, fulfilled_at |-> None]

\* a faulty NewOrderItem: the item priced at the product's price of the moment
NewOrderItemAtProductPrice(o, r) ==
    [order |-> o, item |-> r.id, product |-> r.product, quantity |-> r.quantity,
     price |-> products[r.product].price, final_price |-> products[r.product].price]

\* a faulty NewOrderItem: OrderItem.save does not fill final_price, it stays null
NewOrderItemFinalUnset(o, r) ==
    [order |-> o, item |-> r.id, product |-> r.product, quantity |-> r.quantity,
     price |-> r.price, final_price |-> None]

\* OrderItem.objects.create(order, product, quantity, price) from a cart row;
\* OrderItem.save() fills final_price with price
NewOrderItem(o, r) ==
    [order |-> o, item |-> r.id, product |-> r.product, quantity |-> r.quantity,
     price |-> r.price, final_price |-> r.price]

\* Order.send_notification_email: send_mail(..., fail_silently=False) raises when
\* the mail cannot be sent
send_notification_email(o, mailOk) ==
    sent' = IF mailOk THEN [sent EXCEPT ![o] = @ + 1] ELSE sent

\* the post_save receiver of Order
order_created_notification(created, o, mailOk) ==
    IF created THEN send_notification_email(o, mailOk) ELSE UNCHANGED sent

\* a faulty mark_fulfilled: "if final_amount:" takes a final amount of zero for none
mark_fulfilled_truthy(o, final_amount, t) ==
    Order_save([o EXCEPT !.status = "fulfilled",
                        !.final_total_amount =
                            IF final_amount # None /\ final_amount # 0
                            THEN final_amount ELSE o.total_amount,
                        !.fulfilled_at = t], t)

\* Order.mark_fulfilled, the order's own fields: status, final_total_amount,
\* fulfilled_at = timezone.now(), self.save()
mark_fulfilled(o, final_amount, t) ==
    Order_save([o EXCEPT !.status = "fulfilled",
                        !.final_total_amount =
                            IF final_amount # None THEN final_amount ELSE o.total_amount,
                        !.fulfilled_at = t], t)

\* Product.update_stats
update_stats(prod, quantity_sold, revenue_made) ==
    [prod EXCEPT !.units_sold = @ + quantity_sold, !.total_revenue = @ + revenue_made]

\* a faulty FulfilProduct: the revenue booked is the unit price, not price times quantity
FulfilProductUnitRevenue(prod, item) ==
    update_stats([prod EXCEPT !.inventory = @ - item.quantity],
                 item.quantity, item.final_price)

\* Order.mark_fulfilled, one turn of its loop: the product instance after
\* product.inventory -= item.quantity and update_stats
FulfilProduct(prod, item) ==
    update_stats([prod EXCEPT !.inventory = @ - item.quantity],
                 item.quantity, item.final_price * item.quantity)

\* a faulty ProductSaveOk: plain IntegerField columns, every save goes through
ProductSaveUnchecked(prod) == prod.inventory \in Int

\* the CHECK (>= 0) of the PositiveIntegerField columns: Product.save() raises
\* IntegrityError when it does not hold
ProductSaveOk(prod) == prod.inventory >= 0 /\ prod.units_sold >= 0

\* self.orderitem_set.all(), in primary key order
ItemsOf(items, o) == {i \in items : i.order = o}

RECURSIVE InIdOrder(_)
InIdOrder(items) ==
    IF items = {} THEN <<>>
    ELSE LET first == CHOOSE i \in items : \A j \in items : i.item <= j.item
         IN <<first>> \o InIdOrder(items \ {first})

\* Order.mark_fulfilled, its whole loop run without interleaving: the product
\* rows afterwards, or <<>> when a save raised
RECURSIVE FulfilAll(_, _)
FulfilAll(prods, todo) ==
    IF todo = <<>> THEN prods
    ELSE LET item == Head(todo)
             new  == FulfilProduct(prods[item.product], item)
         IN IF ProductSaveOk(new)
            THEN FulfilAll([prods EXCEPT ![item.product] = new], Tail(todo))
            ELSE <<>>

\* ------------------------------------------------------------ Store
\* store.order_set
order_set(store) == {o \in DOMAIN orders : orders[o].store = store}

\* sum(order.final_total_amount for order in ...), every amount a number
RECURSIVE SumFinalTotal(_)
SumFinalTotal(ids) ==
    IF ids = {} THEN 0
    ELSE LET o == CHOOSE x \in ids : TRUE
         IN orders[o].final_total_amount + SumFinalTotal(ids \ {o})

\* Store.total_revenue: the sum over the store's fulfilled orders; adding a null
\* final_total_amount raises TypeError
total_revenue(store) ==
    LET fulfilled == {o \in order_set(store) : orders[o].status = "fulfilled"}
    IN IF \E o \in fulfilled : orders[o].final_total_amount = None
       THEN [raised |-> TRUE, value |-> 0]
       ELSE [raised |-> FALSE, value |-> SumFinalTotal(fulfilled)]

\* Store.total_orders
total_orders(store) == Cardinality(order_set(store))

\* a faulty pending_orders: cancelled orders are left out as well
pending_orders_open(store) ==
    Cardinality({o \in order_set(store) : orders[o].status \notin {"fulfilled", "cancelled"}})

\* Store.pending_orders: order_set.exclude(status='fulfilled').count()
pending_orders(store) ==
    Cardinality({o \in order_set(store) : orders[o].status # "fulfilled"})

\* ------------------------------------- OrderViewSet update / partial_update
\* the end of OrderUpdateSerializer.update: with items in the request,
\* OrderItem.objects.get(id=item_data.get('id')) finds no id in the validated
\* data (id is read-only) and raises DoesNotExist
OuFinish(p, hasItems, mf) ==
    /\ pc' = [pc EXCEPT ![p] = "done"]
    /\ loc' = [loc EXCEPT ![p].resp = IF hasItems THEN "error" ELSE "ok",
                          ![p].cause = IF hasItems THEN "DoesNotExist" ELSE "none",
                          ![p].mf = mf, ![p].todo = <<>>]

\* the validated items an order update carries when it carries any: quantity and
\* final_price of one item (id is read-only and is not among the validated data)
ItemsDataInputs ==
    {<<[quantity |-> 1, final_price |-> 2]>>, <<[quantity |-> 2, final_price |-> 1]>>}

\* a faulty NotYetFulfilled: the timestamp is not looked at
NotYetFulfilledByStatus(instance) == instance.status = "fulfilled"

\* OrderUpdateSerializer.update, its test before mark_fulfilled:
\* instance.status == 'fulfilled' and not instance.fulfilled_at
NotYetFulfilled(instance) == instance.status = "fulfilled" /\ instance.fulfilled_at = None

\* OrderUpdateSerializer.update: the order's fields; on the way to fulfilled,
\* mark_fulfilled's order part and its query of the order's items
OuBegin(p) ==
    /\ pc[p] = "idle"
    /\ Admit
    /\ \E o \in DOMAIN orders, st \in STATUS_CHOICES \cup {"absent"},
          fin \in FinalInputs \cup {Absent}, items_data \in ItemsDataInputs \cup {<<>>} :
         LET inst   == orders[o]
             hasItems == items_data # <<>>
             status == IF st = "absent" THEN inst.status ELSE st
         IN IF NotYetFulfilled([inst EXCEPT !.status = status])
            THEN LET final == IF fin = Absent THEN inst.total_amount ELSE fin
                     todo  == InIdOrder(ItemsOf(orderItems, o))
                 IN /\ now <= MaxTime
                    /\ orders' = [orders EXCEPT ![o] =
                          mark_fulfilled([inst EXCEPT !.status = status,
                                                     !.final_total_amount = final],
                                        final, now)]
                    /\ now' = now + 1
                    /\ IF todo = <<>>
                       THEN /\ pc' = [pc EXCEPT ![p] = "done"]
                            /\ loc' = [loc EXCEPT ![p].op = "order_update", ![p].order = o,
                                    ![p].preProducts = products, ![p].hasItems = hasItems,
                                    ![p].items_data = items_data,
                                    ![p].final_amount = final, ![p].preOrder = inst,
                                    ![p].mf = "returned",
                                    ![p].resp = IF hasItems THEN "error" ELSE "ok",
                                    ![p].cause = IF hasItems THEN "DoesNotExist" ELSE "none"]
                       ELSE /\ pc' = [pc EXCEPT ![p] = "ou_read"]
                            /\ loc' = [loc EXCEPT ![p].op = "order_update", ![p].order = o,
                                    ![p].preProducts = products, ![p].hasItems = hasItems,
                                    ![p].items_data = items_data,
                                    ![p].final_amount = final, ![p].preOrder = inst,
                                    ![p].mf = "running", ![p].todo = todo]
            ELSE /\ orders' = [orders EXCEPT ![o] =
                          Order_save([inst EXCEPT !.status = status,
                                                 !.final_total_amount =
                                                     IF fin = Absent THEN @ ELSE fin],
                                    now)]
                 /\ pc' = [pc EXCEPT ![p] = "done"]
                 /\ loc' = [loc EXCEPT ![p].op = "order_update", ![p].order = o,
                                       ![p].hasItems = hasItems, ![p].preOrder = inst,
                                       ![p].items_data = items_data,
                                       ![p].resp = IF hasItems THEN "error" ELSE "ok",
                                       ![p].cause = IF hasItems THEN "DoesNotExist" ELSE "none"]
                 /\ UNCHANGED now
    /\ UNCHANGED <<products, cartItems, nextCartItemId, nextOrderId, orderItems, sent, tx>>
    /\ UNCHANGED today

\* mark_fulfilled: product = item.product loads the row
OuRead(p) ==
    /\ pc[p] = "ou_read"
    /\ pc' = [pc EXCEPT ![p] = "ou_write"]
    /\ loc' = [loc EXCEPT ![p].prod = products[Head(loc[p].todo).product]]
    /\ UNCHANGED <<dbvars, tx, left>>

\* mark_fulfilled: inventory -= quantity; update_stats(...) saves; product.save()
OuWrite(p) ==
    /\ pc[p] = "ou_write"
    /\ LET item == Head(loc[p].todo)
           new  == FulfilProduct(loc[p].prod, item)
       IN IF ProductSaveOk(new)
          THEN /\ products' = [products EXCEPT ![item.product] = new]
               /\ IF Tail(loc[p].todo) = <<>>
                  THEN OuFinish(p, loc[p].hasItems, "returned")
                  ELSE /\ pc' = [pc EXCEPT ![p] = "ou_read"]
                       /\ loc' = [loc EXCEPT ![p].todo = Tail(@)]
          ELSE /\ pc' = [pc EXCEPT ![p] = "done"]
               /\ loc' = [loc EXCEPT ![p].resp = "error", ![p].cause = "IntegrityError",
                                     ![p].mf = "raised"]
               /\ UNCHANGED products
    /\ UNCHANGED <<cartItems, nextCartItemId, orders, nextOrderId, orderItems, sent, now, tx, left>>
    /\ UNCHANGED today

\* -------------------------------------------------- OrderAdmin.save_model
\* the admin change view (one database transaction): the form's status and
\* final_total_amount set on the instance; mark_fulfilled when the status changed
\* to fulfilled; then obj.save()
AdminSave(p) ==
    /\ pc[p] = "idle"
    /\ Admit
    /\ \E o \in DOMAIN orders, st \in STATUS_CHOICES, fin \in FinalInputs \cup {Absent} :
         LET inst == orders[o]
             obj  == [inst EXCEPT !.status = st,
                                  !.final_total_amount = IF fin = Absent THEN @ ELSE fin]
         IN IF st # inst.status /\ st = "fulfilled"
            THEN LET after == FulfilAll(products, InIdOrder(ItemsOf(orderItems, o)))
                 IN /\ now <= MaxTime
                    /\ now' = now + 1
                    /\ IF after # <<>>
                       THEN /\ orders' = [orders EXCEPT ![o] =
                                 Order_save(mark_fulfilled(obj, obj.final_total_amount, now), now)]
                            /\ products' = after
                            /\ loc' = [loc EXCEPT ![p].op = "admin", ![p].order = o,
                                          ![p].preProducts = products,
                                          ![p].final_amount = obj.final_total_amount,
                                          ![p].preOrder = inst,
                                          ![p].mf = "returned", ![p].resp = "ok"]
                       ELSE /\ UNCHANGED <<orders, products>>
                            /\ loc' = [loc EXCEPT ![p].op = "admin", ![p].order = o,
                                          ![p].preProducts = products,
                                          ![p].final_amount = obj.final_total_amount,
                                          ![p].preOrder = inst,
                                          ![p].mf = "raised", ![p].resp = "error",
                                          ![p].cause = "IntegrityError"]
            ELSE /\ orders' = [orders EXCEPT ![o] = Order_save(obj, now)]
                 /\ now' = IF SaveStamps(obj) THEN now + 1 ELSE now
                 /\ UNCHANGED products
                 /\ loc' = [loc EXCEPT ![p].op = "admin", ![p].order = o, ![p].resp = "ok"]
    /\ pc' = [pc EXCEPT ![p] = "done"]
    /\ UNCHANGED <<cartItems, nextCartItemId, nextOrderId, orderItems, sent, tx>>
    /\ UNCHANGED today

\* ------------------------------------------------ ProductViewSet update
\* the owner edits a product's price
EditProduct(p) ==
    /\ pc[p] = "idle"
    /\ Admit
    /\ \E prod \in Products, price \in Prices :
         /\ price # products[prod].price
         /\ products' = [products EXCEPT ![prod].price = price]
         /\ loc' = [loc EXCEPT ![p].op = "edit_product", ![p].product = prod, ![p].resp = "ok"]
    /\ pc' = [pc EXCEPT ![p] = "done"]
    /\ UNCHANGED <<cartItems, nextCartItemId, orders, nextOrderId, orderItems, sent, now, tx>>
    /\ UNCHANGED today

\* ------------------------------------------------- transaction.atomic
\* a faulty AtomicExit: no transaction, the writes made so far stay when an
\* exception leaves
AtomicExitNoRollback(p, ok) ==
    /\ orders' = IF tx[p].order # 0
                 THEN [o \in DOMAIN orders \cup {tx[p].order} |->
                         IF o = tx[p].order THEN tx[p].row ELSE orders[o]]
                 ELSE orders
    /\ orderItems' = orderItems \cup tx[p].items
    /\ cartItems' = {r \in cartItems : r.id \notin tx[p].deleted}
    /\ tx' = [tx EXCEPT ![p] = NoTx]

\* leaving the @transaction.atomic block of CheckoutSerializer.create: commit its
\* writes on return, drop them on an exception
AtomicExit(p, ok) ==
    /\ orders' = IF ok /\ tx[p].order # 0
                 THEN [o \in DOMAIN orders \cup {tx[p].order} |->
                         IF o = tx[p].order THEN tx[p].row ELSE orders[o]]
                 ELSE orders
    /\ orderItems' = IF ok THEN orderItems \cup tx[p].items ELSE orderItems
    /\ cartItems' = IF ok THEN {r \in cartItems : r.id \notin tx[p].deleted} ELSE cartItems
    /\ tx' = [tx EXCEPT ![p] = NoTx]

\* ------------------------------------------- Order.save of a new order
\* the rows another worker's open transaction has inserted and not committed
HeldCodes(p) == {tx[q].row.order_code : q \in {w \in Procs \ {p} : tx[w].order # 0}}

\* OrderManager.generate_order_code, one call of it: a code is built and looked
\* up; a taken code makes the function call itself, and the nesting ends in
\* RecursionError when the interpreter's stack is full
generate_order_code(p) ==
    /\ pc[p] = "gen"
    /\ \E random_part \in RandomParts :
         LET code == full_code(StoreName[loc[p].inst.store], today, random_part)
         IN IF code \in Codes(orders)
            THEN IF loc[p].depth < RecursionLimit
                 THEN /\ loc' = [loc EXCEPT ![p].depth = @ + 1]
                      /\ UNCHANGED <<pc, tx, orders, orderItems, cartItems>>
                 ELSE /\ AtomicExit(p, FALSE)
                      /\ Done(p, "error", "RecursionError")
            ELSE /\ pc' = [pc EXCEPT ![p] = IF loc[p].op = "checkout"
                                            THEN "co_insert" ELSE "oc_insert"]
                 /\ loc' = [loc EXCEPT ![p].inst.order_code = code]
                 /\ UNCHANGED <<tx, orders, orderItems, cartItems>>
    /\ UNCHANGED <<products, nextCartItemId, nextOrderId, sent, now, today, left>>

\* ------------------------------------------------- OrderViewSet.create
\* the statuses and the total_amount a POST of an order carries
CreateStatuses == {"placed", "confirmed", "fulfilled", "cancelled"}
CreateAmounts == {3}

\* OrderSerializer: Order.objects.create(**validated_data), up to the call of
\* generate_order_code in Order.save
OcBegin(p) ==
    /\ pc[p] = "idle"
    /\ Admit
    /\ nextOrderId + Cardinality(Creating) <= MaxOrders
    /\ \E store \in Stores, st \in CreateStatuses, amount \in CreateAmounts :
         /\ pc' = [pc EXCEPT ![p] = "gen"]
         /\ loc' = [loc EXCEPT ![p].op = "order_create", ![p].depth = 1,
                               ![p].inst = [NewOrder(store, amount) EXCEPT !.status = st]]
    /\ UNCHANGED <<dbvars, tx>>

\* Order.save after the code: the fulfilment defaults, the INSERT (order_code is
\* unique), then the post_save receiver; nothing is rolled back when the mail fails
OcInsert(p) ==
    /\ pc[p] = "oc_insert"
    /\ loc[p].inst.order_code \notin HeldCodes(p)
    /\ nextOrderId' = nextOrderId + 1
    /\ IF loc[p].inst.order_code \in Codes(orders)
       THEN /\ Done(p, "error", "IntegrityError")
            /\ UNCHANGED <<orders, sent, now>>
       ELSE /\ orders' = [o \in DOMAIN orders \cup {nextOrderId} |->
                            IF o = nextOrderId THEN Order_save(loc[p].inst, now)
                            ELSE orders[o]]
            /\ now' = IF SaveStamps(loc[p].inst) THEN now + 1 ELSE now
            /\ \E mailOk \in BOOLEAN :
                 /\ order_created_notification(TRUE, nextOrderId, mailOk)
                 /\ pc' = [pc EXCEPT ![p] = "done"]
                 /\ loc' = [loc EXCEPT ![p].order = nextOrderId,
                                       ![p].resp = IF mailOk THEN "created" ELSE "error",
                                       ![p].cause = IF mailOk THEN "none" ELSE "notify"]
    /\ UNCHANGED <<products, cartItems, nextCartItemId, orderItems, today, tx, left>>

\* ------------------------------------------------------ CheckoutView
\* CheckoutView.create up to serializer.save()
CoBegin(p) ==
    /\ pc[p] = "idle"
    /\ Admit
    /\ nextOrderId + Cardinality(Creating) <= MaxOrders
    /\ IF ~exists(cartItems)
       THEN /\ pc' = [pc EXCEPT ![p] = "done"]
            /\ loc' = [loc EXCEPT ![p].op = "checkout", ![p].resp = "bad_request",
                                  ![p].cause = "empty",
                                  ![p].preOrders = DOMAIN orders, ![p].preSent = sent]
       ELSE /\ pc' = [pc EXCEPT ![p] = "co_enter"]
            /\ loc' = [loc EXCEPT ![p].op = "checkout",
                                  ![p].preOrders = DOMAIN orders, ![p].preSent = sent]
    /\ UNCHANGED <<dbvars, tx>>

\* CheckoutSerializer.create: the transaction opens, the emptiness check
CoEnter(p) ==
    /\ pc[p] = "co_enter"
    /\ IF ~exists(cartItems)
       THEN /\ Done(p, "bad_request", "empty")
            /\ UNCHANGED tx
       ELSE /\ pc' = [pc EXCEPT ![p] = "co_order"]
            /\ loc' = [loc EXCEPT ![p].pre = cartItems]
            /\ tx' = [tx EXCEPT ![p].active = TRUE]
    /\ UNCHANGED dbvars
    /\ UNCHANGED left

\* convert_to_order: Order.objects.create(store=self.store, total_amount=self.total()),
\* up to the call of generate_order_code in Order.save
CoCreateOrder(p) ==
    /\ pc[p] = "co_order"
    /\ pc' = [pc EXCEPT ![p] = "gen"]
    /\ loc' = [loc EXCEPT ![p].inst = NewOrder("s1", total(cartItems)),
                          ![p].total = total(cartItems), ![p].depth = 1]
    /\ UNCHANGED <<dbvars, tx, left>>

\* Order.save after the code: the INSERT (order_code is unique; it waits for
\* another transaction's uncommitted row of the same code), and the post_save
\* receiver it triggers
CoInsertOrder(p) ==
    /\ pc[p] = "co_insert"
    /\ loc[p].inst.order_code \notin HeldCodes(p)
    /\ nextOrderId' = nextOrderId + 1
    /\ IF loc[p].inst.order_code \in Codes(orders)
       THEN /\ AtomicExit(p, FALSE)
            /\ pc' = [pc EXCEPT ![p] = "done"]
            /\ loc' = [loc EXCEPT ![p].order = nextOrderId, ![p].resp = "error",
                                  ![p].cause = "IntegrityError"]
            /\ UNCHANGED sent
       ELSE \E mailOk \in BOOLEAN :
              /\ order_created_notification(TRUE, nextOrderId, mailOk)
              /\ IF mailOk
                 THEN /\ tx' = [tx EXCEPT ![p].order = nextOrderId,
                                          ![p].row = Order_save(loc[p].inst, now)]
                      /\ pc' = [pc EXCEPT ![p] = "co_items"]
                      /\ loc' = [loc EXCEPT ![p].order = nextOrderId]
                      /\ UNCHANGED <<orders, orderItems, cartItems>>
                 ELSE /\ AtomicExit(p, FALSE)
                      /\ pc' = [pc EXCEPT ![p] = "done"]
                      /\ loc' = [loc EXCEPT ![p].order = nextOrderId, ![p].resp = "error",
                                            ![p].cause = "notify"]
    /\ UNCHANGED <<products, nextCartItemId, now>>
    /\ UNCHANGED left
    /\ UNCHANGED today

\* a faulty CoItems: making the order items debits the products' inventory
CoItemsDebiting(p) ==
    /\ pc[p] = "co_items"
    /\ tx' = [tx EXCEPT ![p].items = {NewOrderItem(tx[p].order, r) : r \in cartItems}]
    /\ products' = [x \in Products |->
                      [products[x] EXCEPT !.inventory =
                          IF \E r \in cartItems : r.product = x /\ r.quantity <= @
                          THEN @ - (CHOOSE r \in cartItems : r.product = x).quantity
                          ELSE @]]
    /\ pc' = [pc EXCEPT ![p] = "co_clear"]
    /\ UNCHANGED <<cartItems, nextCartItemId, orders, nextOrderId, orderItems, sent, now, today>>
    /\ UNCHANGED <<loc, left>>

\* convert_to_order: for cart_item in self.cartitem_set.all(): OrderItem.objects.create
CoItems(p) ==
    /\ pc[p] = "co_items"
    /\ tx' = [tx EXCEPT ![p].items = {NewOrderItem(tx[p].order, r) : r \in cartItems}]
    /\ pc' = [pc EXCEPT ![p] = "co_clear"]
    /\ UNCHANGED <<dbvars, loc>>
    /\ UNCHANGED left

\* convert_to_order: self.clear(); the DELETE waits for another transaction's
\* locks on the rows
CoClear(p) ==
    /\ pc[p] = "co_clear"
    /\ {r.id : r \in cartItems} \cap LockedBy(p) = {}
    /\ tx' = [tx EXCEPT ![p].deleted = {r.id : r \in cartItems}]
    /\ pc' = [pc EXCEPT ![p] = "co_notify"]
    /\ UNCHANGED <<dbvars, loc>>
    /\ UNCHANGED left

\* convert_to_order: order.send_notification_email(); return order; the
\* transaction commits and the view answers 201
CoNotify(p) ==
    /\ pc[p] = "co_notify"
    /\ \E mailOk \in BOOLEAN :
         /\ send_notification_email(tx[p].order, mailOk)
         /\ AtomicExit(p, mailOk)
         /\ Done(p, IF mailOk THEN "created" ELSE "error",
                    IF mailOk THEN "none" ELSE "notify")
    /\ UNCHANGED <<products, nextCartItemId, nextOrderId, now>>
    /\ UNCHANGED left
    /\ UNCHANGED today

\* a statement of the transaction raises (the database refuses it): the
\* exception leaves the atomic block
CoAbort(p) ==
    /\ pc[p] \in {"co_order", "co_insert", "co_items", "co_clear", "co_notify"}
    /\ AtomicExit(p, FALSE)
    /\ Done(p, "error", "db")
    /\ UNCHANGED <<products, nextCartItemId, nextOrderId, sent, now>>
    /\ UNCHANGED left
    /\ UNCHANGED today

Step(p) ==
    \/ AddBegin(p)
    \/ AddSave(p)
    \/ AddCreate(p)
    \/ UpdBegin(p)
    \/ UpdWrite(p)
    \/ RemoveFromCart(p)
    \/ CoBegin(p)
    \/ CoEnter(p)
    \/ CoCreateOrder(p)
    \/ generate_order_code(p)
    \/ CoInsertOrder(p)
    \/ CoItems(p)
    \/ CoClear(p)
    \/ CoNotify(p)
    \/ CoAbort(p)
    \/ OuBegin(p)
    \/ OuRead(p)
    \/ OuWrite(p)
    \/ AdminSave(p)
    \/ EditProduct(p)
    \/ Return(p)

Next == Step(1)

NextConc == \E p \in Procs : Step(p)

Spec == Init /\ [][Next]_vars

\* the same start, with ConcRequests requests to come
InitConc == InitDb /\ today = 45 /\ left = ConcRequests

SpecConc == InitConc /\ [][NextConc]_vars

\* the creation of orders alone, on any day
StepOrders(p) ==
    \/ OcBegin(p)
    \/ generate_order_code(p)
    \/ OcInsert(p)
    \/ Return(p)

NextOrders == StepOrders(1)

InitOrders == InitDb /\ today \in Days /\ left = OrderRequests

SpecOrders == InitOrders /\ [][NextOrders]_vars

\* the cart alone: its views and update_quantity called directly
StepCart(p) ==
    \/ AddBegin(p)
    \/ AddSave(p)
    \/ AddCreate(p)
    \/ UpdBegin(p)
    \/ UpdWrite(p)
    \/ RemoveFromCart(p)
    \/ UqBegin(p)
    \/ UqWrite(p)
    \/ EditProduct(p)
    \/ Return(p)

NextCart == StepCart(1)

InitCart == InitDb /\ today = 45 /\ left = CartRequests

SpecCart == InitCart /\ [][NextCart]_vars

\* the shop's requests and update_quantity called directly, one at a time
NextShop == Step(1) \/ UqBegin(1) \/ UqWrite(1)

InitShop == InitDb /\ today = 45 /\ left = ShopRequests

SpecShop == InitShop /\ [][NextShop]_vars

\* two workers fulfilling: the order updates of the API and of the admin, on
\* two placed orders a cart of one line of product p1 was checked out into
StepFulfil(p) ==
    \/ OuBegin(p)
    \/ OuRead(p)
    \/ OuWrite(p)
    \/ AdminSave(p)
    \/ Return(p)

NextFulfil == \E p \in Procs : StepFulfil(p)

\* the stock of a product before any fulfilment: enough for both orders
StartInventory == 2 * MaxQty

\* the order a checkout of one line of q units of p1 has left behind
PlacedOrder(q, random_part) ==
    [NewOrder("s1", q * 1) EXCEPT !.order_code = full_code(StoreName["s1"], 45, random_part)]

InitFulfil ==
    /\ products = [x \in Products |->
                     [price |-> 1, inventory |-> StartInventory,
                      units_sold |-> 0, total_revenue |-> 0]]
    /\ cartItems = {}
    /\ nextCartItemId = 3
    /\ \E q1, q2 \in 1..MaxQty :
         /\ orders = <<PlacedOrder(q1, <<"A", "7">>), PlacedOrder(q2, <<"Z", "Z">>)>>
         /\ orderItems =
              {NewOrderItem(1, [id |-> 1, product |-> "p1", quantity |-> q1, price |-> 1]),
               NewOrderItem(2, [id |-> 2, product |-> "p1", quantity |-> q2, price |-> 1])}
    /\ nextOrderId = 3
    /\ sent = [o \in 1..MaxOrders |-> IF o <= 2 THEN 2 ELSE 0]
    /\ now = 1
    /\ today = 45
    /\ pc = [p \in Procs |-> "idle"]
    /\ loc = [p \in Procs |-> LocIdle]
    /\ tx = [p \in Procs |-> NoTx]
    /\ left = FulfilRequests

SpecFulfil == InitFulfil /\ [][NextFulfil]_vars

\* ------------------------------------------------------------- claims
CheckoutDone(p) == pc[p] = "done" /\ loc[p].op = "checkout"

RECURSIVE SumQuantity(_)
SumQuantity(items) ==
    IF items = {} THEN 0
    ELSE LET i == CHOOSE x \in items : TRUE IN i.quantity + SumQuantity(items \ {i})

RECURSIVE SumFinal(_)
SumFinal(items) ==
    IF items = {} THEN 0
    ELSE LET i == CHOOSE x \in items : TRUE IN final_subtotal(i) + SumFinal(items \ {i})

\* the product rows a fulfilment of order o must leave, from the rows before it
Booked(before, o) ==
    [x \in Products |->
       LET its == {i \in ItemsOf(orderItems, o) : i.product = x}
       IN [price         |-> before[x].price,
           inventory     |-> before[x].inventory - SumQuantity(its),
           units_sold    |-> before[x].units_sold + SumQuantity(its),
           total_revenue |-> before[x].total_revenue + SumFinal(its)]]

\* C1: after a checkout that succeeded on a cart of n >= 1 rows, the cart is
\* empty and the new order has exactly n order items, one per former cart row,
\* with that row's product, quantity and stored price.
C1_CheckoutMovesCart ==
    \A p \in Procs :
      (CheckoutDone(p) /\ loc[p].resp = "created") =>
         /\ loc[p].pre # {}
         /\ cartItems = {}
         /\ loc[p].order \in DOMAIN orders
         /\ Cardinality(ItemsOf(orderItems, loc[p].order)) = Cardinality(loc[p].pre)
         /\ \A r \in loc[p].pre :
              \E i \in ItemsOf(orderItems, loc[p].order) :
                 /\ i.item = r.id
                 /\ i.product = r.product
                 /\ i.quantity = r.quantity
                 /\ i.price = r.price

\* a checkout of two cart rows has succeeded, one of them priced differently
\* from what its product costs now
C1_Witness ==
    /\ CheckoutDone(1) /\ loc[1].resp = "created"
    /\ Cardinality(loc[1].pre) = 2
    /\ \E r \in loc[1].pre : r.price # products[r.product].price

\* C2: a checkout that failed after it started leaves no order and no order
\* item of its own, and the cart holding exactly the rows it held before.
C2_CheckoutAllOrNothing ==
    \A p \in Procs :
      (CheckoutDone(p) /\ loc[p].resp = "error") =>
         /\ loc[p].order \notin DOMAIN orders
         /\ \A i \in orderItems : i.order # loc[p].order
         /\ \A i \in orderItems : i.order \in DOMAIN orders
         /\ cartItems = loc[p].pre

\* a checkout failed at its last step: the order, its items and the cart
\* clearing were all done, then the second notification raised
C2_Witness ==
    /\ CheckoutDone(1) /\ loc[1].resp = "error" /\ loc[1].cause = "notify"
    /\ sent[loc[1].order] = 1
    /\ Cardinality(loc[1].pre) = 2

C4_InventoryNonNegative ==
    \A x \in Products : products[x].inventory \in Nat

\* a fulfilment was asked for more units than the product has: an order item's
\* quantity exceeds the inventory, and mark_fulfilled raised
C4_Witness ==
    /\ pc[1] = "done" /\ loc[1].mf = "raised"
    /\ \E i \in ItemsOf(orderItems, loc[1].order) :
          i.quantity > products[i.product].inventory

\* C5: once an order's fulfilled_at holds a timestamp, no step changes it.
C5_FulfilledAtSetOnce ==
    [][\A o \in DOMAIN orders :
          orders[o].fulfilled_at # None =>
             orders'[o].fulfilled_at = orders[o].fulfilled_at]_vars

\* C6: once an order's status is fulfilled or cancelled, no step changes it.
C6_TerminalStatuses ==
    [][\A o \in DOMAIN orders :
          orders[o].status \in {"fulfilled", "cancelled"} =>
             orders'[o].status = orders[o].status]_vars

\* C7: two checkouts of the one cart never both succeed with order items made
\* from the same cart row.
C7_OneOrderPerCart ==
    \A p, q \in Procs :
      (p # q /\ CheckoutDone(p) /\ CheckoutDone(q)
          /\ loc[p].resp = "created" /\ loc[q].resp = "created") =>
         \A i \in ItemsOf(orderItems, loc[p].order), j \in ItemsOf(orderItems, loc[q].order) :
            i.item # j.item

\* C8: when two add_item calls for the same product, both started on the same
\* cart contents, have both returned, the cart holds one row for that product
\* and its quantity has grown by both quantities.
C8_NoLostAdd ==
    \A p, q \in Procs :
      (p # q /\ pc[p] = "done" /\ pc[q] = "done"
          /\ loc[p].op = "add" /\ loc[q].op = "add"
          /\ loc[p].resp = "ok" /\ loc[q].resp = "ok"
          /\ loc[p].product = loc[q].product /\ loc[p].pre = loc[q].pre) =>
         LET before == {r \in loc[p].pre : r.product = loc[p].product}
             after  == {r \in cartItems : r.product = loc[p].product}
         IN /\ Cardinality(after) = 1
            /\ SumQuantity(after) = SumQuantity(before) + loc[p].quantity + loc[q].quantity

\* C9: a checkout that returned an order has caused exactly one send of the
\* order-created notification for it.
C9_ExactlyOneNotification ==
    \A p \in Procs :
      (CheckoutDone(p) /\ loc[p].resp = "created") => sent[loc[p].order] = 1

\* C10: when sending the order-created notification fails, the checkout is still
\* answered as a success, the order and its items exist and the cart is empty.
C10_NotificationFailureIsolated ==
    \A p \in Procs :
      (CheckoutDone(p) /\ loc[p].cause = "notify") =>
         /\ loc[p].resp = "created"
         /\ loc[p].order \in DOMAIN orders
         /\ ItemsOf(orderItems, loc[p].order) # {}
         /\ cartItems = {}

\* a request that was to create an order (checkout or POST of an order) has ended
CreationDone(p) == pc[p] = "done" /\ loc[p].op \in {"checkout", "order_create"}

C11_NoSharedCode ==
    \A o1, o2 \in DOMAIN orders :
       o1 # o2 => orders[o1].order_code # orders[o2].order_code

\* every order that was to be saved got a code no earlier order has: none was
\* left without one
C11_EveryOrderGetsCode ==
    \A p \in Procs :
      (CreationDone(p) /\ loc[p].depth > 0) =>
         /\ loc[p].cause # "RecursionError"
         /\ loc[p].inst.order_code # <<>>

C11_CodeNeverChanges ==
    \A o \in DOMAIN orders : orders'[o].order_code = orders[o].order_code

\* C11: no two orders share an order_code in any state; each of any number of
\* orders created one after the other for the same store on the same day
\* receives a code different from every earlier one; and an order's code never
\* changes once it is assigned.
C11_OrderCodesUnique ==
    /\ []C11_NoSharedCode
    /\ []C11_EveryOrderGetsCode
    /\ [][C11_CodeNeverChanges]_vars

\* C12: a call mark_fulfilled(order, final_amount) that returns leaves the order
\* with status fulfilled and final_total_amount equal to final_amount when one
\* is given (zero included), else to the order's total_amount; total_amount is
\* what it was.
C12_FulfilledAmount ==
    \A p \in Procs :
      (pc[p] = "done" /\ loc[p].mf = "returned") =>
         LET o == orders[loc[p].order]
         IN /\ o.status = "fulfilled"
            /\ o.final_total_amount = IF loc[p].final_amount # None
                                      THEN loc[p].final_amount
                                      ELSE loc[p].preOrder.total_amount
            /\ o.total_amount = loc[p].preOrder.total_amount

\* mark_fulfilled has returned for an order of a total of 2 or more that was
\* given a final amount of zero
C12_Witness ==
    /\ pc[1] = "done" /\ loc[1].mf = "returned"
    /\ loc[1].final_amount = 0
    /\ loc[1].preOrder.total_amount >= 2

\* C13: a checkout of a cart without items is answered with a validation error
\* (400), and afterwards there is no order that was not there before, no
\* notification has been sent and the cart is as it was.
C13_EmptyCartCheckout ==
    \A p \in Procs :
      (CheckoutDone(p) /\ loc[p].pre = {}) =>
         /\ loc[p].resp = "bad_request"
         /\ loc[p].cause = "empty"
         /\ DOMAIN orders = loc[p].preOrders
         /\ orderItems = {i \in orderItems : i.order \in loc[p].preOrders}
         /\ sent = loc[p].preSent
         /\ cartItems = {}

\* a checkout of the empty cart was refused, after an earlier checkout had made
\* an order and sent its notifications
C13_Witness ==
    /\ CheckoutDone(1) /\ loc[1].cause = "empty"
    /\ loc[1].preOrders # {}
    /\ \E o \in loc[1].preOrders : sent[o] > 0

\* C14: the total_amount of an order made by a checkout is the cart total the
\* checkout computed, and that is the sum of price times quantity over the order
\* items made for the order, whatever add, update and remove requests on the
\* same cart ran in between.
C14_TotalMatchesItems ==
    \A p \in Procs :
      (CheckoutDone(p) /\ loc[p].resp = "created") =>
         /\ orders[loc[p].order].total_amount = loc[p].total
         /\ loc[p].total = total(ItemsOf(orderItems, loc[p].order))

\* C15: an add of a product the cart does not hold makes one cart item with the
\* quantity asked for and the product's price of that moment; an add of a
\* product the cart holds leaves that one cart item, its quantity grown by the
\* quantity asked for and its price untouched, whatever the product costs now.
\* So two adds of q1 and q2 leave one item of quantity q1 + q2 at the price of
\* the first add.
C15_MergeWithPriceLock ==
    \A p \in Procs :
      (pc[p] = "done" /\ loc[p].op = "add" /\ loc[p].resp = "ok") =>
         LET before == {r \in loc[p].pre : r.product = loc[p].product}
             after  == {r \in cartItems : r.product = loc[p].product}
         IN /\ Cardinality(after) = 1
            /\ {r \in cartItems : r.product # loc[p].product}
                  = {r \in loc[p].pre : r.product # loc[p].product}
            /\ IF before = {}
               THEN \A a \in after : /\ a.quantity = loc[p].quantity
                                     /\ a.price = products[loc[p].product].price
               ELSE \A a \in after : \E b \in before :
                       /\ a.id = b.id
                       /\ a.quantity = b.quantity + loc[p].quantity
                       /\ a.price = b.price

\* a second add of a product has returned: its line holds the quantities of
\* both adds, and the product's price was changed after the first add
C15_Witness ==
    /\ pc[1] = "done" /\ loc[1].op = "add" /\ loc[1].resp = "ok"
    /\ \E b \in loc[1].pre, a \in cartItems :
          /\ b.product = loc[1].product /\ a.id = b.id
          /\ a.quantity = b.quantity + loc[1].quantity
          /\ a.quantity = 3
          /\ a.price # products[a.product].price

\* an update of a line's quantity has ended: UpdateCartItemView, or
\* ShoppingCart.update_quantity called directly
QuantityUpdateDone(p) == pc[p] = "done" /\ loc[p].op \in {"update", "update_quantity"}

\* the lines the update was aimed at
Aimed(p, rows) ==
    IF loc[p].op = "update" THEN {r \in rows : r.id = loc[p].row.id}
    ELSE {r \in rows : r.product = loc[p].product}

C16_ViewRejectsNegative ==
    \A p \in Procs :
      (pc[p] = "done" /\ loc[p].op = "update" /\ loc[p].quantity < 0) =>
         loc[p].resp = "bad_request" /\ cartItems = loc[p].pre

\* C16: an update of a line's quantity to a negative quantity is refused with a
\* validation error and leaves the cart's items as they were; to zero it
\* deletes the line; to a positive quantity it sets the quantity of the existing
\* line and leaves its price as it was.
C16_UpdateQuantity ==
    \A p \in Procs :
      (QuantityUpdateDone(p) /\ loc[p].cause # "inventory") =>
         IF loc[p].quantity < 0
         THEN loc[p].resp = "bad_request" /\ cartItems = loc[p].pre
         ELSE IF loc[p].quantity = 0
         THEN cartItems = loc[p].pre \ Aimed(p, loc[p].pre)
         ELSE \A b \in Aimed(p, loc[p].pre) :
                 [b EXCEPT !.quantity = loc[p].quantity] \in cartItems

\* the number of orders among the ids 1..n that are of the store and in one of
\* the statuses
RECURSIVE CountOrders(_, _, _)
CountOrders(n, store, statuses) ==
    IF n = 0 THEN 0
    ELSE CountOrders(n - 1, store, statuses)
         + (IF /\ n \in DOMAIN orders
               /\ orders[n].store = store
               /\ orders[n].status \in statuses
            THEN 1 ELSE 0)

\* C17: for every store, in every state, pending_orders is the number of the
\* store's orders that are placed, confirmed, in delivery or cancelled, and
\* total_orders the number of the store's orders of any status; the orders of
\* the other stores are not counted.
C17_OrderCounts ==
    \A store \in Stores :
       /\ pending_orders(store)
             = CountOrders(nextOrderId, store,
                           {"placed", "confirmed", "in_delivery", "cancelled"})
       /\ total_orders(store) = CountOrders(nextOrderId, store, STATUS_CHOICES)

\* store s1 has a fulfilled and a cancelled order, and store s2 an order too
C17_Witness ==
    /\ total_orders("s1") = 2 /\ pending_orders("s1") = 1
    /\ \E o \in order_set("s1") : orders[o].status = "cancelled"
    /\ total_orders("s2") = 1 /\ pending_orders("s2") = 1

\* the sum of final_total_amount over the orders among the ids 1..n that are
\* fulfilled orders of the store
RECURSIVE RevenueTo(_, _)
RevenueTo(n, store) ==
    IF n = 0 THEN 0
    ELSE RevenueTo(n - 1, store)
         + (IF /\ n \in DOMAIN orders
               /\ orders[n].store = store
               /\ orders[n].status = "fulfilled"
            THEN orders[n].final_total_amount ELSE 0)

\* C18: in every state every fulfilled order has a final_total_amount (also
\* after later updates of the order), and total_revenue of every store is
\* defined and is the sum of final_total_amount over the store's fulfilled
\* orders.
C18_RevenueDefined ==
    /\ \A o \in DOMAIN orders :
          orders[o].status = "fulfilled" => orders[o].final_total_amount # None
    /\ \A store \in Stores :
          /\ ~total_revenue(store).raised
          /\ total_revenue(store).value = RevenueTo(nextOrderId, store)

\* C19: every saved order item (no request sets a final_price of its own on
\* one) has final_subtotal equal to subtotal, both price times quantity, also
\* after an order update that carried items.
C19_FinalSubtotal ==
    \A i \in orderItems \cup UNION {tx[p].items : p \in Procs} :
       /\ final_subtotal(i) = subtotal(i)
       /\ subtotal(i) = i.price * i.quantity

\* an order update that carried items has ended, on an order with an item of
\* quantity 2 or more
C19_Witness ==
    /\ pc[1] = "done" /\ loc[1].op = "order_update" /\ loc[1].hasItems
    /\ \E i \in ItemsOf(orderItems, loc[1].order) : i.quantity >= 2

\* C20: a call of the order-code generation ends by returning a code that no
\* existing order has, or, after a bounded number of attempts, by failing with
\* a conflict error; it does not go on retrying until something else stops it,
\* also when every code of the store prefix and the day is taken.
C20_BoundedRetries ==
    /\ \A p \in Procs :
          pc[p] \in {"co_insert", "oc_insert"} => loc[p].inst.order_code \notin Codes(orders)
    /\ \A p \in Procs :
          (CreationDone(p) /\ loc[p].depth > 0 /\ loc[p].inst.order_code = <<>>) =>
             loc[p].cause = "ConflictError"

\* the day of the year written with three digits, zero-padded
ThreeDigits(n) ==
    <<Alphabet[(n \div 100) + 1], Alphabet[((n \div 10) % 10) + 1], Alphabet[(n % 10) + 1]>>

\* C21: the code of every order created for a store whose name has two
\* characters or more, on any day of the year, has exactly 8 characters: the
\* first two letters of the name in upper case, the day of the year zero-padded
\* to three digits, two characters out of A-Z and 0-9, and the checksum
\* character, the one at index (sum of the character codes of the seven before
\* it) mod 36 of 0-9A-Z.
C21_CodeFormat ==
    \A o \in DOMAIN orders :
       LET code == orders[o].order_code
           name == StoreName[orders[o].store]
       IN Len(name) >= 2 =>
            /\ Len(code) = 8
            /\ SubSeq(code, 1, 2) = <<upper(name[1]), upper(name[2])>>
            /\ SubSeq(code, 3, 5) = ThreeDigits(today)
            /\ \A i \in 6..7 : \E k \in 1..Len(Alphabet) : Alphabet[k] = code[i]
            /\ code[8] = Alphabet[(SumOrd(SubSeq(code, 1, 7)) % 36) + 1]

\* the bookkeeping columns of the product rows
Bookkeeping(rows) ==
    [x \in Products |-> <<rows[x].inventory, rows[x].units_sold, rows[x].total_revenue>>]

\* the requests that are no fulfilment: the cart's operations, the checkout, and
\* an order update that does not call mark_fulfilled
NoFulfilment(op, mf) ==
    \/ op \in {"add", "update", "update_quantity", "remove", "checkout"}
    \/ op \in {"order_update", "admin"} /\ mf = "none"

\* C22: every step of an add, a quantity update, a removal, the clearing of the
\* cart, a checkout, or an order update that does not fulfil the order leaves
\* the inventory, units_sold and total_revenue of every product as they were.
C22_OnlyFulfilmentBooks ==
    [][\A p \in Procs :
          LET op == IF pc[p] = "idle" THEN loc'[p].op ELSE loc[p].op
              mf == IF pc[p] = "idle" THEN loc'[p].mf ELSE loc[p].mf
          IN ((pc'[p] # pc[p] \/ loc'[p] # loc[p]) /\ NoFulfilment(op, mf)) =>
                Bookkeeping(products') = Bookkeeping(products)]_vars

\* an order update that did not fulfil has ended on an order with an item of
\* quantity 2, after a checkout had made the order and cleared the cart
C22_Witness ==
    /\ pc[1] = "done" /\ loc[1].op = "order_update" /\ loc[1].mf = "none"
    /\ orders[loc[1].order].status # "fulfilled"
    /\ \E i \in ItemsOf(orderItems, loc[1].order) : i.quantity = 2
    /\ cartItems = {}

\* C23: when a call of mark_fulfilled has raised in its loop over the order's
\* items, no product of the order is left booked while another is not: the
\* inventory, units_sold and total_revenue of every product are what they were
\* before the call.
C23_FulfilmentAllOrNothing ==
    \A p \in Procs :
      (pc[p] = "done" /\ loc[p].mf = "raised") =>
         Bookkeeping(products) = Bookkeeping(loc[p].preProducts)

\* an order update (OrderUpdateSerializer.update) takes on an order that has a
\* fulfilled_at: it does not call mark_fulfilled and books nothing
C24_NoSecondCall ==
    \A p \in Procs :
      (/\ pc[p] = "idle" /\ loc'[p].op = "order_update"
       /\ orders[loc'[p].order].fulfilled_at # None) =>
         /\ loc'[p].mf = "none"
         /\ pc'[p] = "done"
         /\ Bookkeeping(products') = Bookkeeping(products)

\* an order update that called mark_fulfilled found no fulfilled_at on the
\* order, and has left one on it
C24_CallStamps ==
    \A p \in Procs :
      (loc[p].op = "order_update" /\ loc[p].mf # "none") =>
         /\ loc[p].preOrder.fulfilled_at = None
         /\ orders[loc[p].order].fulfilled_at # None

C24_StampStays ==
    \A o \in DOMAIN orders : orders[o].fulfilled_at # None => orders'[o].fulfilled_at # None

\* C24: through OrderUpdateSerializer.update the fulfilment of an order is
\* booked at most once: the update that calls mark_fulfilled leaves a
\* fulfilled_at on the order, no step takes it away, and every later update of
\* the order, also one that moves the status away from fulfilled or back to it,
\* changes no product's inventory, units_sold or total_revenue.
C24_BookedAtMostOnce ==
    /\ [][C24_NoSecondCall]_vars
    /\ []C24_CallStamps
    /\ [][C24_StampStays]_vars

\* an order with items was fulfilled by an update, moved away from fulfilled,
\* and an update has now set it to fulfilled again: it is booked once
C24_Witness ==
    /\ pc[1] = "done" /\ loc[1].op = "order_update" /\ loc[1].mf = "none"
    /\ loc[1].preOrder.fulfilled_at # None
    /\ loc[1].preOrder.status # "fulfilled"
    /\ orders[loc[1].order].status = "fulfilled"
    /\ \E i \in ItemsOf(orderItems, loc[1].order) :
          /\ products[i.product].units_sold = i.quantity
          /\ products[i.product].units_sold > 0

\* C25: an order update that moved the order to fulfilled and carried a new
\* quantity and final_price for the order's item has stored them on the item,
\* and the item's product is booked by them: inventory down and units_sold up by
\* the new quantity, total_revenue up by the new final_price times the new
\* quantity.
C25_BookedAtNewValues ==
    \A p \in Procs :
      (/\ pc[p] = "done" /\ loc[p].op = "order_update"
       /\ loc[p].mf = "returned" /\ loc[p].hasItems
       /\ Cardinality(ItemsOf(orderItems, loc[p].order)) = 1) =>
         LET d == loc[p].items_data[1]
         IN /\ \A i \in ItemsOf(orderItems, loc[p].order) :
                 i.quantity = d.quantity /\ i.final_price = d.final_price
            /\ products = Booked(loc[p].preProducts, loc[p].order)

\* C26: when mark_fulfilled has returned for two different orders that each
\* hold an item of the same product, fulfilled by two workers in any
\* interleaving, the product's inventory is lower by the two quantities
\* together and its units_sold higher by the two quantities together.
C26_NoLostBooking ==
    \A p, q \in Procs :
      (/\ p # q /\ pc[p] = "done" /\ pc[q] = "done"
       /\ loc[p].mf = "returned" /\ loc[q].mf = "returned"
       /\ loc[p].order # loc[q].order) =>
         \A x \in Products :
            LET ip == {i \in ItemsOf(orderItems, loc[p].order) : i.product = x}
                iq == {i \in ItemsOf(orderItems, loc[q].order) : i.product = x}
            IN (ip # {} /\ iq # {}) =>
                 /\ products[x].inventory = StartInventory - SumQuantity(ip \cup iq)
                 /\ products[x].units_sold = SumQuantity(ip \cup iq)

=============================================================================
